---- MODULE Spec2Model ----
(***************************************************************************)
(* Request orchestration of the Acelerai Impact Simulator.                 *)
(*                                                                         *)
(* Two builds of the program exist in the repository and never run in the  *)
(* same process:                                                           *)
(*   "vite" : the single-page app, whose analyzeCreative                   *)
(*            (services/geminiService.ts) calls the provider itself;       *)
(*   "next" : the Next.js app, whose page (handleAnalyze) posts to the     *)
(*            route POST /api/analyze, whose attemptGeneration calls the   *)
(*            provider.                                                    *)
(* The provider (Gemini) is the environment: every invocation draws its    *)
(* outcome, an error object or a response text, from a finite set.         *)
(***************************************************************************)
EXTENDS Integers, Sequences, FiniteSets, TLC

(***************************************************************************)
(* JavaScript values.  A string is the sequence of its pieces; the empty   *)
(* string is the empty sequence.                                           *)
(***************************************************************************)
Undefined == [type |-> "undefined"]
Null == [type |-> "null"]
Str(chars) == [type |-> "string", chars |-> chars]
EmptyString == Str(<< >>)

\* JavaScript truthiness of the values above: undefined, null and "" are falsy.
Truthy(v) ==
    /\ v.type # "undefined"
    /\ v.type # "null"
    /\ (v.type = "string" => v.chars # << >>)

\* An object is a function from the names of the properties it has.
Has(o, f) == f \in DOMAIN o

(***************************************************************************)
(* Bounds of the model.                                                    *)
(***************************************************************************)
\* Calls of analyzeCreative / requests to the route made in one behaviour.
MaxCalls == 2
\* Largest attempt index the backoff schedule is evaluated at.
MaxAttemptIndex == 6

(***************************************************************************)
(* Provider errors: { status?, message?, details? }.                       *)
(* A message is modelled by the set of the fragments the code searches it  *)
(* for (String.prototype.includes); every other operation on a message is  *)
(* interpolation into another message.                                     *)
(***************************************************************************)
Fragments ==
    { "Resource has been exhausted", "Quota exceeded",
      "429", "RESOURCE_EXHAUSTED", "timeout", "network" }

Includes(message, fragment) == fragment \in message

Statuses == {400, 429, 500, 503}

Messages == { {} } \cup { {f} : f \in Fragments }

RetryInfoType == "type.googleapis.com/google.rpc.RetryInfo"
QuotaFailureType == "type.googleapis.com/google.rpc.QuotaFailure"

\* d['@type']?.includes('RetryInfo')
TypeIncludesRetryInfo(d) == Has(d, "@type") /\ d["@type"] = RetryInfoType

\* retryDelay strings the provider may send, piece by piece.
DelayStrings ==
    { << "5", "s" >>, << "3", "3", "s" >>, << "5", "0", "0", "m", "s" >>,
      << "0", "s" >>, << "0", "m", "s" >>,
      << "1", ".", "5", "s" >>, << "s" >>, << "5", "m" >>, << >> }

RetryInfo(delay) == ("@type" :> RetryInfoType) @@ ("retryDelay" :> Str(delay))
QuotaFailure == ("@type" :> QuotaFailureType)
Untyped == ("retryDelay" :> Str(<< "5", "s" >>))

\* error.details when it is an array.
DetailArrays ==
    { << >>, << QuotaFailure >>, << Untyped >>,
      << QuotaFailure, RetryInfo(<< "3", "3", "s" >>) >>,
      << RetryInfo(<< "5", "s" >>), RetryInfo(<< "3", "3", "s" >>) >>,
      << RetryInfo(<< >>), RetryInfo(<< "5", "s" >>) >> }
    \cup { << RetryInfo(d) >> : d \in DelayStrings }

StatusPart == { << >> } \cup { ("status" :> s) : s \in Statuses }
MessagePart == { << >> } \cup { ("message" :> m) : m \in Messages }
DetailsPart ==
    { ("details" :> [array |-> FALSE]) }
    \cup { ("details" :> [array |-> TRUE, items |-> a]) : a \in DetailArrays }

\* Every error object an invocation of the provider may throw: any status with any
\* message, and details on some of them.
ProviderErrors ==
    { s @@ m : s \in StatusPart, m \in MessagePart }
    \cup { s @@ m @@ d :
             s \in { << >>, ("status" :> 429), ("status" :> 500) },
             m \in { << >>, ("message" :> {"Quota exceeded"}), ("message" :> {"network"}) },
             d \in DetailsPart }

(***************************************************************************)
(* Provider responses.  A response text is undefined, "", a text that is   *)
(* not JSON, or the JSON text of a value.  A text that is not JSON carries *)
(* the fragments that the engine's SyntaxError message for it contains     *)
(* (V8 quotes the offending position, "... in JSON at position 429", or a  *)
(* piece of the text itself).                                              *)
(***************************************************************************)
JsonText(v) == [type |-> "string", chars |-> << "json" >>, valid |-> TRUE, value |-> v]
BadText(quoted) == [type |-> "string", chars |-> << "text" >>, valid |-> FALSE, quoted |-> quoted]

AgentsFeedback == << [agent_name |-> "Phil", score |-> 80] >>
PersonaImpact == << [persona_name |-> "Impulsivos de Mobile", impact_score |-> 70] >>
Heatmap == [focal_point_1 |-> "logo", focal_point_2 |-> "cta", ignored_area |-> "footer"]

Analysis(score, feedback, impact) ==
    ("analysis_id" :> "a1") @@ ("overall_score" :> score) @@ ("sentiment" :> "neutral")
    @@ ("agents_feedback" :> feedback) @@ ("persona_impact" :> impact)
    @@ ("actionable_tips" :> << "tip" >>)

EmptyObject == << >>

\* JSON values a response text may hold: conforming ones and others.
ProviderValues ==
    { Analysis(87, AgentsFeedback, PersonaImpact) @@ ("simulated_heatmap" :> Heatmap),
      Analysis(0, AgentsFeedback, PersonaImpact),
      Analysis(100, AgentsFeedback, PersonaImpact),
      Analysis(150, AgentsFeedback, PersonaImpact),
      Analysis(-5, AgentsFeedback, PersonaImpact),
      Analysis(60, << >>, PersonaImpact),
      Analysis(42, AgentsFeedback, PersonaImpact) @@ ("warning" :> "model note"),
      ("analysis_id" :> "a2") @@ ("overall_score" :> 55) @@ ("agents_feedback" :> AgentsFeedback),
      EmptyObject }

ResponseTexts ==
    { Undefined, EmptyString }
    \cup { BadText(q) : q \in { {}, {"429"}, {"timeout"} } }
    \cup { JsonText(v) : v \in ProviderValues }

\* What one call of generateContent produces.
Outcomes ==
    { [kind |-> "error", error |-> e] : e \in ProviderErrors }
    \cup { [kind |-> "response", text |-> t] : t \in ResponseTexts }

\* The outcomes drawn when a user interface is the caller: a conforming result, an
\* error that is retried and one that is not.
UiOutcomes ==
    { [kind |-> "response",
       text |-> JsonText(Analysis(87, AgentsFeedback, PersonaImpact)
                         @@ ("simulated_heatmap" :> Heatmap))],
      [kind |-> "error", error |-> ("status" :> 429)],
      [kind |-> "error", error |-> ("status" :> 400) @@ ("message" :> {"network"})] }

OutcomesOf(caller) == IF caller \in { "page", "app" } THEN UiOutcomes ELSE Outcomes

\* JSON.parse: the value of a JSON text; a SyntaxError for "" and for any other text.
JSONParse(s) ==
    IF Has(s, "valid") /\ s.valid
    THEN [ok |-> TRUE, value |-> s.value]
    ELSE [ok |-> FALSE,
          error |-> ("message" :> (IF Has(s, "quoted") THEN s.quoted ELSE {}))]

(***************************************************************************)
(* Retry guidance: error.details[].retryDelay, /^(\d+)(s|ms)$/ , parseInt. *)
(***************************************************************************)
Digits == { "0", "1", "2", "3", "4", "5", "6", "7", "8", "9" }

DigitValue(c) ==
    CASE c = "0" -> 0 [] c = "1" -> 1 [] c = "2" -> 2 [] c = "3" -> 3 [] c = "4" -> 4
      [] c = "5" -> 5 [] c = "6" -> 6 [] c = "7" -> 7 [] c = "8" -> 8 [] c = "9" -> 9

RECURSIVE DigitPrefix(_)
\* Length of the longest prefix of digits: what (\d+) consumes.
DigitPrefix(chars) ==
    IF chars # << >> /\ Head(chars) \in Digits THEN 1 + DigitPrefix(Tail(chars)) ELSE 0

RECURSIVE ParseInt(_)
\* parseInt of a string of digits.
ParseInt(digits) ==
    IF digits = << >> THEN 0
    ELSE 10 * ParseInt(SubSeq(digits, 1, Len(digits) - 1)) + DigitValue(digits[Len(digits)])

\* retryDelay.match(/^(\d+)(s|ms)$/): the two groups, or no match.
MatchDelay(chars) ==
    LET k == DigitPrefix(chars)
        unit == SubSeq(chars, k + 1, Len(chars))
    IN  IF k >= 1 /\ unit \in { << "s" >>, << "m", "s" >> }
        THEN [matched |-> TRUE, digits |-> SubSeq(chars, 1, k), unit |-> unit]
        ELSE [matched |-> FALSE]

\* error.details.find(d => d['@type']?.includes('RetryInfo') && d.retryDelay)
FindRetryInfo(error) ==
    IF Has(error, "details") /\ error.details.array
    THEN LET items == error.details.items
             hits == { i \in DOMAIN items :
                          /\ TypeIncludesRetryInfo(items[i])
                          /\ Has(items[i], "retryDelay")
                          /\ Truthy(items[i].retryDelay) }
         IN  IF hits = {} THEN Undefined
             ELSE items[CHOOSE i \in hits : \A j \in hits : i <= j]
    ELSE Undefined

\* The delay in ms that the error's RetryInfo asks for; `otherwise` when there is
\* no RetryInfo or its retryDelay does not match.
RequestedDelay(error, otherwise) ==
    LET retryInfo == FindRetryInfo(error)
    IN  IF retryInfo = Undefined THEN otherwise
        ELSE LET match == MatchDelay(retryInfo.retryDelay.chars)
             IN  IF match.matched
                 THEN LET value == ParseInt(match.digits)
                      IN  IF match.unit = << "s" >> THEN value * 1000 ELSE value
                 ELSE otherwise

(***************************************************************************)
(* State.                                                                  *)
(***************************************************************************)
VARIABLES
    build,        \* which app runs: "vite" or "next"
    apiKey,       \* whether the provider credential is configured
    calls,        \* calls of analyzeCreative / requests to the route so far
    invocations,  \* generateContent calls made by the current call or request
    waits,        \* retry waits completed by the current call or request
    only429,      \* every invocation of the current call failed with status 429
    svcPc,        \* analyzeCreative: "idle", "attempting", "caught", "sleeping", "settled"
    contents,     \* analyzeCreative: the parts sent to the model
    attempt,      \* analyzeCreative: let attempt
    svcResponse,  \* analyzeCreative: response.text of the last response
    textResult,   \* analyzeCreative: const textResult of the last response
    svcError,     \* analyzeCreative: the error caught by the last attempt
    svcDelay,     \* analyzeCreative: the delay being slept
    svcPromise    \* analyzeCreative: the promise it returned

svcVars ==
    << svcPc, contents, attempt, svcResponse, textResult, svcError, svcDelay, svcPromise >>

VARIABLES
    client,       \* who calls: "script" (vite), "page" or "http" (next)
    routePc,      \* the route: "idle", "attempting", "caught", "sleeping", "fallback", "responded"
    body,         \* the route: the request body as req.json() read it
    text,         \* the route: parsed.data.text
    image,        \* the route: parsed.data.image
    parts,        \* the route: the parts of the last generateContent call
    retryCount,   \* the route: attemptGeneration's retryCount
    responseText, \* the route: response.text() of the last attempt
    routeError,   \* the route: the error caught by the last attempt
    routeDelay,   \* the route: the delay being waited
    response,     \* the route: the HTTP response sent
    fallbacks,    \* the route: text-only fallback invocations of the current request
    inputText,    \* the page: useState inputText
    selectedImage, \* the page: useState selectedImage
    fileName,     \* the page: useState fileName
    isAnalyzing   \* the page: useState isAnalyzing

VARIABLES
    analysisResult, \* the UI: useState analysisResult (AnalysisProvider / App)
    history,        \* the UI: useState history
    stored,         \* localStorage 'acelerai_history': the list its JSON text parses to
    now,            \* Date.now(): the number of results stamped so far
    location,       \* next-app: the route the router shows, "/" or "/report"
    isCompressing,  \* InputArea: useState isCompressing
    upload,         \* InputArea: handleFileUpload's position: "none", "compressing", "reading"
    submitted,      \* the values handleAnalyze / processAnalysis closed over when it started
    lastInputData,  \* App: useState lastInputData
    detached,       \* App: a second processAnalysis whose analyzeCreative call is outstanding
    abandoned       \* App: VOLTAR was clicked while the call in flight was pending

routeVars ==
    << routePc, body, text, image, parts, retryCount, responseText, routeError, routeDelay, response,
       fallbacks >>
inputVars == << inputText, selectedImage, fileName >>
resultVars == << analysisResult, history, stored, now >>
uploadVars == << isCompressing, upload >>
appVars == << lastInputData, detached, abandoned >>
pageVars == << inputVars, isAnalyzing, resultVars, location, uploadVars, submitted, appVars >>
envVars == << build, apiKey, client >>
countVars == << calls, invocations, waits, only429 >>

Pending == [state |-> "pending"]
\* A variant that resolves with a default object instead of the parsed value.
FulfilledDefault(v) == [state |-> "fulfilled", value |-> EmptyObject]

Fulfilled(v) == [state |-> "fulfilled", value |-> v]
Rejected(e) == [state |-> "rejected", reason |-> e]

NoError == << >>
NoText == [type |-> "none"]

(***************************************************************************)
(* analyzeCreative (services/geminiService.ts).                            *)
(***************************************************************************)
maxRetries == 4

backoffDelays == << 2000, 5000, 15000, 35000 >>

RECURSIVE SplitComma(_)
\* String.prototype.split(','): the pieces between the commas.
SplitComma(chars) ==
    IF \A i \in DOMAIN chars : chars[i] # "," THEN << chars >>
    ELSE LET k == CHOOSE i \in DOMAIN chars :
                      chars[i] = "," /\ \A j \in 1..(i - 1) : chars[j] # ","
         IN  << SubSeq(chars, 1, k - 1) >> \o SplitComma(SubSeq(chars, k + 1, Len(chars)))

\* base64Image.split(',')[1] || base64Image
ImageData(base64Image) ==
    LET pieces == SplitComma(base64Image.chars)
    IN  IF Len(pieces) >= 2 /\ pieces[2] # << >> THEN Str(pieces[2]) ELSE base64Image

\* const contents = [{ text: input }]; if (base64Image) contents.push({ inlineData })
SvcContents(input, base64Image) ==
    << [text |-> input] >>
    \o (IF Truthy(base64Image)
        THEN << [inlineData |-> [mimeType |-> "image/png", data |-> ImageData(base64Image)]] >>
        ELSE << >>)

\* The texts and images a caller may pass.
Texts == { EmptyString, Str(<< "Anuncio de Black Friday" >>) }
Images == { Undefined, Str(<< "data:image/png;base64", ",", "iVBOR" >>), Str(<< "iVBOR" >>) }

ApiKeyError == [message |-> "API Key configuration error"]
JsonParseError == ("message" :> { "JSON Parse Error" })
OverloadedError ==
    [message |-> "Servico temporariamente sobrecarregado. Por favor, aguarde 1 minuto e tente novamente."]
FailedAfterError(n, error) ==
    [message |-> "Falha na analise apos n tentativas.", n |-> n,
     cause |-> IF Has(error, "message") THEN error.message ELSE {}]
UnknownError == [message |-> "Erro desconhecido na analise."]

\* Mutant of SvcIsRetryable: status 503 is not retried.
SvcIsRetryableNo503(error) ==
    \/ (Has(error, "status") /\ error.status = 429)
    \/ /\ Has(error, "message")
       /\ \/ Includes(error.message, "Resource has been exhausted")
          \/ Includes(error.message, "Quota exceeded")

\* const isRetryable = error.status === 429 || error.status === 503 || (error.message && ...)
SvcIsRetryable(error) ==
    \/ (Has(error, "status") /\ error.status = 429)
    \/ (Has(error, "status") /\ error.status = 503)
    \/ /\ Has(error, "message")
       /\ \/ Includes(error.message, "Resource has been exhausted")
          \/ Includes(error.message, "Quota exceeded")

\* Mutant of SvcShouldRetry: the last retry is not made.
SvcShouldRetryShort(error, n) == SvcIsRetryable(error) /\ n < maxRetries - 2

\* Mutant of SvcShouldRetry: the last attempt's failure is retried too.
SvcShouldRetryLate(error, n) == SvcIsRetryable(error) /\ n < maxRetries

\* if (isRetryable && attempt < maxRetries - 1)
SvcShouldRetry(error, n) == SvcIsRetryable(error) /\ n < maxRetries - 1

\* Mutant of BackoffDelay: the schedule is read one entry too far.
BackoffDelayShifted(n) ==
    LET entry == IF n + 2 \in DOMAIN backoffDelays THEN backoffDelays[n + 2] ELSE 0
    IN  IF entry # 0 THEN entry ELSE 35000

\* backoffDelays[attempt] || 35000
BackoffDelay(n) ==
    LET entry == IF n + 1 \in DOMAIN backoffDelays THEN backoffDelays[n + 1] ELSE 0
    IN  IF entry # 0 THEN entry ELSE 35000

\* let delay = 0; ... delay = unit === 's' ? value * 1000 : value; ...
\* if (delay === 0) delay = backoffDelays[attempt] || 35000
SvcRetryDelay(error, n) ==
    LET delay == RequestedDelay(error, 0)
    IN  IF delay = 0 THEN BackoffDelay(n) ELSE delay

\* error.status === 429 ? 'Servico temporariamente sobrecarregado...' : `Falha na analise apos ...`
SvcUserError(error, n) ==
    IF Has(error, "status") /\ error.status = 429
    THEN OverloadedError
    ELSE FailedAfterError(n + 1, error)

\* while (attempt < maxRetries) { ... } throw new Error("Erro desconhecido na analise.")
SvcLoop(n) ==
    IF n < maxRetries
    THEN /\ svcPc' = "attempting"
         /\ svcPromise' = Pending
    ELSE /\ svcPc' = "settled"
         /\ svcPromise' = Rejected(UnknownError)

\* A variant of the entry of analyzeCreative without the check of the API key.
SvcStartNoKeyCheck(input, base64Image) ==
    /\ calls' = calls + 1
    /\ invocations' = 0
    /\ waits' = 0
    /\ only429' = TRUE
    /\ svcResponse' = NoText
    /\ textResult' = NoText
    /\ svcError' = NoError
    /\ svcDelay' = 0
    /\ contents' = SvcContents(input, base64Image)
    /\ attempt' = 0
    /\ SvcLoop(0)

\* analyzeCreative(input, base64Image) from its first line to the first generateContent.
SvcStart(input, base64Image) ==
    /\ calls' = calls + 1
    /\ invocations' = 0
    /\ waits' = 0
    /\ only429' = TRUE
    /\ svcResponse' = NoText
    /\ textResult' = NoText
    /\ svcError' = NoError
    /\ svcDelay' = 0
    /\ IF ~apiKey
       THEN /\ svcPc' = "settled"
            /\ svcPromise' = Rejected(ApiKeyError)
            /\ UNCHANGED << contents, attempt >>
       ELSE /\ contents' = SvcContents(input, base64Image)
            /\ attempt' = 0
            /\ SvcLoop(0)

\* A caller other than the App calls analyzeCreative(input, base64Image).
SvcCall(input, base64Image) ==
    /\ build = "vite"
    /\ client = "script"
    /\ svcPc = "idle"
    /\ calls < MaxCalls
    /\ SvcStart(input, base64Image)
    /\ UNCHANGED << envVars, routeVars, pageVars >>

\* One pass through the try block: generateContent, then JSON.parse of its text.
SvcAttempt(outcome) ==
    /\ build = "vite"
    /\ svcPc = "attempting"
    /\ invocations' = invocations + 1
    /\ only429' = (only429 /\ outcome.kind = "error" /\ Has(outcome.error, "status")
                            /\ outcome.error.status = 429)
    /\ IF outcome.kind = "error"
       THEN /\ svcPc' = "caught"
            /\ svcError' = outcome.error
            /\ UNCHANGED << svcResponse, textResult, svcPromise >>
       ELSE LET result == IF Truthy(outcome.text) THEN outcome.text ELSE JsonText(EmptyObject)
                parsed == JSONParse(result)
            IN  /\ svcResponse' = outcome.text
                /\ textResult' = result
                /\ IF parsed.ok
                   THEN /\ svcPc' = "settled"
                        /\ svcPromise' = Fulfilled(parsed.value)
                        /\ UNCHANGED svcError
                   ELSE /\ svcPc' = "caught"
                        /\ svcError' = JsonParseError
                        /\ UNCHANGED svcPromise
    /\ UNCHANGED << envVars, routeVars, pageVars, calls, waits, contents, attempt, svcDelay >>

\* The catch block: retry after a delay, or throw the user-facing error.
SvcCatch ==
    /\ build = "vite"
    /\ svcPc = "caught"
    /\ IF SvcShouldRetry(svcError, attempt)
       THEN /\ svcDelay' = SvcRetryDelay(svcError, attempt)
            /\ svcPc' = "sleeping"
            /\ UNCHANGED svcPromise
       ELSE /\ svcPc' = "settled"
            /\ svcPromise' = Rejected(SvcUserError(svcError, attempt))
            /\ UNCHANGED svcDelay
    /\ UNCHANGED << envVars, routeVars, pageVars, countVars,
                    contents, attempt, svcResponse, textResult, svcError >>

\* A variant of the code after the sleep that leaves out attempt++.
SvcWakeNoIncrement ==
    /\ build = "vite"
    /\ svcPc = "sleeping"
    /\ waits' = waits + 1
    /\ attempt' = attempt
    /\ svcError' = NoError
    /\ svcDelay' = 0
    /\ SvcLoop(attempt)
    /\ UNCHANGED << envVars, routeVars, pageVars, calls, invocations, only429,
                    contents, svcResponse, textResult >>

\* await sleep(delay) completes; attempt++; the catch block's error and delay go out
\* of scope; back to the loop test.
SvcWake ==
    /\ build = "vite"
    /\ svcPc = "sleeping"
    /\ waits' = waits + 1
    /\ attempt' = attempt + 1
    /\ svcError' = NoError
    /\ svcDelay' = 0
    /\ SvcLoop(attempt + 1)
    /\ UNCHANGED << envVars, routeVars, pageVars, calls, invocations, only429,
                    contents, svcResponse, textResult >>

\* The caller has taken the settled promise's outcome; the call's locals are gone
\* and analyzeCreative can be called again.
SvcReset ==
    /\ svcPc' = "idle"
    /\ invocations' = 0
    /\ waits' = 0
    /\ only429' = TRUE
    /\ contents' = << >>
    /\ attempt' = 0
    /\ svcResponse' = NoText
    /\ textResult' = NoText
    /\ svcError' = NoError
    /\ svcDelay' = 0
    /\ svcPromise' = Pending
    /\ UNCHANGED calls

SvcDone ==
    /\ build = "vite"
    /\ client = "script"
    /\ svcPc = "settled"
    /\ SvcReset
    /\ UNCHANGED << envVars, routeVars, pageVars >>

(***************************************************************************)
(* The route POST /api/analyze (next-app).                                 *)
(***************************************************************************)
\* A property of an object, undefined when the object lacks it.
Prop(o, f) == IF Has(o, f) THEN o[f] ELSE Undefined

DataUrl == Str(<< "data:image/png;base64", ",", "iVBOR" >>)
SomeText == Str(<< "Anuncio de Black Friday" >>)

\* Request bodies a client may post: text that is not JSON, JSON null, and objects
\* whose text and image are absent, null, "" or a string.
BodyObjects ==
    { t @@ i :
        t \in { << >> } \cup { ("text" :> v) : v \in { Null, EmptyString, SomeText } },
        i \in { << >> } \cup { ("image" :> v) : v \in { Null, EmptyString, DataUrl, Str(<< "iVBOR" >>) } } }

Requests ==
    { [parses |-> FALSE] }
    \cup { [parses |-> TRUE, object |-> FALSE] }
    \cup { [parses |-> TRUE, object |-> TRUE, value |-> b] : b \in BodyObjects }

\* z.string().optional()
IsOptionalString(o, f) == Has(o, f) => o[f].type = "string"

\* Mutant of AnalyzeSchema: the refinement "text or image" is missing.
AnalyzeSchemaNoRefine(json) ==
    /\ json.object
    /\ IsOptionalString(json.value, "text")
    /\ IsOptionalString(json.value, "image")

\* AnalyzeSchema.safeParse(body).success
AnalyzeSchema(json) ==
    /\ json.object
    /\ IsOptionalString(json.value, "text")
    /\ IsOptionalString(json.value, "image")
    /\ (Truthy(Prop(json.value, "text")) \/ Truthy(Prop(json.value, "image")))

\* A variant that pushes the image part before the text part.
buildPartsImageFirst(t, img, useImage) ==
    (IF Truthy(img) /\ useImage
     THEN << [inlineData |-> [mimeType |-> "image/png", data |-> ImageData(img)]] >>
     ELSE << >>)
    \o (IF Truthy(t) THEN << [text |-> t] >> ELSE << >>)

\* const buildParts = (useImage) => ...
buildParts(t, img, useImage) ==
    (IF Truthy(t) THEN << [text |-> t] >> ELSE << >>)
    \o (IF Truthy(img) /\ useImage
        THEN << [inlineData |-> [mimeType |-> "image/png", data |-> ImageData(img)]] >>
        ELSE << >>)

\* const isQuotaError = error.status === 429 || error.message?.includes('429') || ...
IsQuotaError(error) ==
    \/ (Has(error, "status") /\ error.status = 429)
    \/ (Has(error, "message") /\ Includes(error.message, "429"))
    \/ (Has(error, "message") /\ Includes(error.message, "RESOURCE_EXHAUSTED"))

\* Mutant of RouteIsRetryable: every error that has a status is retried.
RouteIsRetryableAnyStatus(error) ==
    \/ IsQuotaError(error)
    \/ Has(error, "status")
    \/ (Has(error, "message") /\ Includes(error.message, "timeout"))
    \/ (Has(error, "message") /\ Includes(error.message, "network"))

\* const isRetryable = isQuotaError || error.status === 503 || error.status === 500 || ...
RouteIsRetryable(error) ==
    \/ IsQuotaError(error)
    \/ (Has(error, "status") /\ error.status = 503)
    \/ (Has(error, "status") /\ error.status = 500)
    \/ (Has(error, "message") /\ Includes(error.message, "timeout"))
    \/ (Has(error, "message") /\ Includes(error.message, "network"))

\* A variant that allows a fourth retry.
RouteShouldRetryFourTimes(error, n) == n < 4 /\ RouteIsRetryable(error)

\* if (retryCount < 3 && isRetryable)
RouteShouldRetry(error, n) == n < 3 /\ RouteIsRetryable(error)

RECURSIVE Pow2(_)
Pow2(n) == IF n = 0 THEN 1 ELSE 2 * Pow2(n - 1)

\* let delay = Math.pow(2, retryCount) * 2000; ... delay = unit === 's' ? value * 1000 : value
RouteRetryDelay(error, n) == RequestedDelay(error, Pow2(n) * 2000)

\* if (useImage && text && retryCount >= 1)
\* A variant that falls back after the failure of the very first attempt.
RouteShouldFallbackFirstFailure(t, img, n) == Truthy(img) /\ Truthy(t)

RouteShouldFallback(t, img, n) == Truthy(img) /\ Truthy(t) /\ n >= 1

FallbackWarning == "A analise visual falhou (Erro/Seguranca). Resultados baseados apenas em texto."

\* A variant that spreads the parsed value after the warning: the value's own
\* warning wins.
WithWarningSpreadLast(value) == value @@ ("warning" :> FallbackWarning)

\* { ...JSON.parse(response.text()), warning: "..." }
WithWarning(value) == ("warning" :> FallbackWarning) @@ value

\* NextResponse.json(...)
Response(status, json) == [status |-> status, body |-> json]
NoResponse == [status |-> 0]
NoBody == [parses |-> FALSE, none |-> TRUE]

\* A variant without the default: { status: undefined } makes NextResponse.json answer 200.
ErrorResponseNoDefault(error) ==
    Response(IF Has(error, "status") THEN error.status ELSE 200,
             [error |-> IF IsQuotaError(error)
                        THEN "Limite de requisicoes excedido. Por favor, tente novamente em alguns instantes."
                        ELSE "Erro interno no processamento de IA."])

\* The route's outer catch: status error.status || 500, message by isQuota.
ErrorResponse(error) ==
    Response(IF Has(error, "status") THEN error.status ELSE 500,
             [error |-> IF IsQuotaError(error)
                        THEN "Limite de requisicoes excedido. Por favor, tente novamente em alguns instantes."
                        ELSE "Erro interno no processamento de IA."])

InvalidInputResponse == Response(400, [error |-> "Input invalido"])
MissingKeyResponse == Response(500, [error |-> "Configuracao de API Key ausente no servidor."])

\* POST from its first line to the first call of attemptGeneration.
RouteReceive(req) ==
    /\ calls' = calls + 1
    /\ invocations' = 0
    /\ waits' = 0
    /\ UNCHANGED only429
    /\ fallbacks' = 0
    /\ body' = req
    /\ parts' = << >>
    /\ retryCount' = 0
    /\ responseText' = NoText
    /\ routeError' = NoError
    /\ routeDelay' = 0
    /\ IF ~req.parses
       THEN /\ routePc' = "responded"
            /\ response' = ErrorResponse(("message" :> {}))
            /\ UNCHANGED << text, image >>
       ELSE IF ~AnalyzeSchema(req)
       THEN /\ routePc' = "responded"
            /\ response' = InvalidInputResponse
            /\ UNCHANGED << text, image >>
       ELSE /\ text' = Prop(req.value, "text")
            /\ image' = Prop(req.value, "image")
            /\ IF ~apiKey
               THEN /\ routePc' = "responded"
                    /\ response' = MissingKeyResponse
               ELSE /\ routePc' = "attempting"
                    /\ response' = NoResponse

\* Some HTTP client posts a body to /api/analyze.
HttpPost(req) ==
    /\ build = "next"
    /\ client = "http"
    /\ routePc = "idle"
    /\ calls < MaxCalls
    /\ RouteReceive(req)
    /\ UNCHANGED << envVars, svcVars, pageVars >>

\* attemptGeneration's try block: buildParts, generateContent, JSON.parse.
RouteAttempt(outcome) ==
    /\ build = "next"
    /\ routePc = "attempting"
    /\ invocations' = invocations + 1
    /\ parts' = buildParts(text, image, Truthy(image))
    /\ IF outcome.kind = "error"
       THEN /\ routePc' = "caught"
            /\ routeError' = outcome.error
            /\ UNCHANGED << responseText, response >>
       ELSE LET parsed == JSONParse(outcome.text)
            IN  /\ responseText' = outcome.text
                /\ IF parsed.ok
                   THEN /\ routePc' = "responded"
                        /\ response' = Response(200, parsed.value)
                        /\ UNCHANGED routeError
                   ELSE /\ routePc' = "caught"
                        /\ routeError' = parsed.error
                        /\ UNCHANGED response
    /\ UNCHANGED << envVars, calls, waits, only429, svcVars, pageVars,
                    body, text, image, retryCount, routeDelay, fallbacks >>

\* attemptGeneration's catch block: retry after a delay, fall back to text only, or throw
\* to the route's outer catch.
RouteCatch ==
    /\ build = "next"
    /\ routePc = "caught"
    /\ IF RouteShouldRetry(routeError, retryCount)
       THEN /\ routeDelay' = RouteRetryDelay(routeError, retryCount)
            /\ routePc' = "sleeping"
            /\ UNCHANGED response
       ELSE IF RouteShouldFallback(text, image, retryCount)
       THEN /\ routePc' = "fallback"
            /\ UNCHANGED << routeDelay, response >>
       ELSE /\ routePc' = "responded"
            /\ response' = ErrorResponse(routeError)
            /\ UNCHANGED routeDelay
    /\ UNCHANGED << envVars, countVars, svcVars, pageVars,
                    body, text, image, parts, retryCount, responseText, routeError,
                    fallbacks >>

\* The delay has passed: return attemptGeneration(retryCount + 1).
RouteWake ==
    /\ build = "next"
    /\ routePc = "sleeping"
    /\ waits' = waits + 1
    /\ retryCount' = retryCount + 1
    /\ routePc' = "attempting"
    /\ responseText' = NoText
    /\ routeError' = NoError
    /\ routeDelay' = 0
    /\ UNCHANGED << envVars, calls, invocations, only429, svcVars, pageVars,
                    body, text, image, parts, response, fallbacks >>

\* A variant whose fallback runs inside the try block: a failed fallback is caught
\* again by attemptGeneration's catch block.
RouteFallbackInsideTry(outcome) ==
    /\ build = "next"
    /\ routePc = "fallback"
    /\ invocations' = invocations + 1
    /\ fallbacks' = fallbacks + 1
    /\ parts' = buildParts(text, image, FALSE)
    /\ IF outcome.kind = "error"
       THEN /\ routePc' = "caught"
            /\ routeError' = outcome.error
            /\ UNCHANGED << responseText, response >>
       ELSE LET parsed == JSONParse(outcome.text)
            IN  /\ responseText' = outcome.text
                /\ IF parsed.ok
                   THEN /\ routePc' = "responded"
                        /\ response' = Response(200, WithWarning(parsed.value))
                        /\ routeError' = NoError
                   ELSE /\ routePc' = "caught"
                        /\ routeError' = parsed.error
                        /\ UNCHANGED response
    /\ UNCHANGED << envVars, calls, waits, only429, svcVars, pageVars,
                    body, text, image, retryCount, routeDelay >>

\* The fallback: generateContent(buildParts(false)), JSON.parse, warning added; its
\* outcome leaves attemptGeneration, and the catch block's error with it.
RouteFallback(outcome) ==
    /\ build = "next"
    /\ routePc = "fallback"
    /\ invocations' = invocations + 1
    /\ fallbacks' = fallbacks + 1
    /\ parts' = buildParts(text, image, FALSE)
    /\ routePc' = "responded"
    /\ IF outcome.kind = "error"
       THEN /\ response' = ErrorResponse(outcome.error)
            /\ UNCHANGED responseText
       ELSE LET parsed == JSONParse(outcome.text)
            IN  /\ responseText' = outcome.text
                /\ response' = IF parsed.ok
                               THEN Response(200, WithWarning(parsed.value))
                               ELSE ErrorResponse(parsed.error)
    /\ routeError' = NoError
    /\ UNCHANGED << envVars, calls, waits, only429, svcVars, pageVars,
                    body, text, image, retryCount, routeDelay >>

\* The request's locals are gone once the response is out.
RouteReset ==
    /\ routePc' = "idle"
    /\ body' = NoBody
    /\ text' = Undefined
    /\ image' = Undefined
    /\ parts' = << >>
    /\ retryCount' = 0
    /\ responseText' = NoText
    /\ routeError' = NoError
    /\ routeDelay' = 0
    /\ response' = NoResponse
    /\ fallbacks' = 0
    /\ invocations' = 0
    /\ waits' = 0
    /\ UNCHANGED << calls, only429 >>

\* The HTTP client has the response.
HttpDone ==
    /\ build = "next"
    /\ client = "http"
    /\ routePc = "responded"
    /\ RouteReset
    /\ UNCHANGED << envVars, svcVars, pageVars >>

(***************************************************************************)
(* The history of results (AnalysisProvider in next-app, App in vite).     *)
(***************************************************************************)
\* Entries kept by slice(0, 15).
HistoryLimit == 15
\* Entries of the history that a session may load from localStorage when it starts.
LoadedEntries == 14

\* list.slice(0, n)
Slice(list, n) == SubSeq(list, 1, IF Len(list) < n THEN Len(list) ELSE n)

\* The optional properties of a result that the UI sets, possibly to undefined.
MetadataFields == { "sourceText", "sourceImage" }

\* JSON.parse(JSON.stringify(item)): a property whose value is undefined is left out.
JsonItem(item) ==
    LET dropped == { f \in MetadataFields \cap DOMAIN item : item[f] = Undefined }
    IN  [f \in (DOMAIN item) \ dropped |-> item[f]]

\* JSON.parse(JSON.stringify(list))
JsonList(list) == [i \in DOMAIN list |-> JsonItem(list[i])]

\* An entry saved by an earlier session, the i-th newest of them.
LoadedEntry(i) ==
    ("analysis_id" :> "a0") @@ ("overall_score" :> 50) @@ ("timestamp" :> 0 - i)
    @@ ("sourceText" :> Str(<< "Campanha anterior" >>))

\* What localStorage 'acelerai_history' holds when a session with a user interface
\* starts: one entry less than the limit, so that the limit is met and then exceeded.
StoredHistories == { [i \in 1..LoadedEntries |-> LoadedEntry(i)] }

\* { ...result, timestamp: Date.now(), sourceText, sourceImage }
WithMetadata(result, stamp, sourceText, sourceImage) ==
    ("timestamp" :> stamp) @@ ("sourceText" :> sourceText) @@ ("sourceImage" :> sourceImage)
    @@ result

\* A variant of addToHistory that appends the result after the entries it has.
AddToHistoryLast(result) ==
    LET updated == Slice(history \o << result >>, HistoryLimit)
    IN  /\ history' = updated
        /\ stored' = JsonList(updated)

\* addToHistory: setHistory(prev => { const updated = [result, ...prev].slice(0, 15);
\* localStorage.setItem('acelerai_history', JSON.stringify(updated)); return updated; })
AddToHistory(result) ==
    LET updated == Slice(<< result >> \o history, HistoryLimit)
    IN  /\ history' = updated
        /\ stored' = JsonList(updated)

(***************************************************************************)
(* The page (next-app Home): InputArea, handleAnalyze and analyzeWithAPI.  *)
(***************************************************************************)
FileNames == { Null, Str(<< "brief.pdf" >>) }

\* The files a user picks with the file input: an image and a document.
Files ==
    { [name |-> Str(<< "photo.png" >>), isImage |-> TRUE],
      [name |-> Str(<< "brief.pdf" >>), isImage |-> FALSE] }

NoSubmission == [text |-> Undefined, image |-> Undefined]
\* useState({ text: '', image: '' })
NoInputData == [text |-> EmptyString, image |-> EmptyString]

\* App: !analysisResult && !isAnalyzing shows the home view, isAnalyzing &&
\* lastInputData.image the full-screen spinner, anything else the report view.
\* (activeTab is never set to 'history': <FloatingMenu /> is given no props.)
AppHome == analysisResult = Null /\ ~isAnalyzing
AppSpinner == ~AppHome /\ isAnalyzing /\ Truthy(lastInputData.image)
AppReport == ~AppHome /\ ~AppSpinner

\* Home (next-app) renders <ProcessingStatus /> instead of the input area while
\* isAnalyzing; App renders it in the home view and under a document report.  The
\* continuation of a settled promise runs before the next event of the user.
InputAreaShown ==
    \/ /\ build = "next"
       /\ client = "page"
       /\ location = "/"
       /\ ~isAnalyzing
    \/ /\ build = "vite"
       /\ client = "app"
       /\ svcPc # "settled"
       /\ AppHome \/ (AppReport /\ ~Truthy(lastInputData.image))

\* onChange={(e) => setInputText(e.target.value)}
PageType(t) ==
    /\ InputAreaShown
    /\ calls < MaxCalls
    /\ t # inputText
    /\ inputText' = t
    /\ UNCHANGED << envVars, countVars, svcVars, routeVars, selectedImage, fileName, isAnalyzing,
                    resultVars, location, uploadVars, submitted, appVars >>

\* handleFileUpload up to its first await; one upload is followed at a time.  The page
\* compresses an image before it reads it, App reads it as it is.
HandleFileUpload(file) ==
    /\ InputAreaShown
    /\ calls < MaxCalls
    /\ upload = "none"
    /\ fileName' = file.name
    /\ IF file.isImage /\ client = "page"
       THEN /\ isCompressing' = TRUE
            /\ upload' = "compressing"
            /\ UNCHANGED selectedImage
       ELSE IF file.isImage
       THEN /\ upload' = "reading"
            /\ UNCHANGED << selectedImage, isCompressing >>
       ELSE /\ selectedImage' = Undefined
            /\ UNCHANGED uploadVars
    /\ UNCHANGED << envVars, countVars, svcVars, routeVars, inputText, isAnalyzing,
                    resultVars, location, submitted, appVars >>

\* imageCompression rejects: the catch block starts a reader on the original file and
\* resets isCompressing before that reader has loaded.
CompressionFails ==
    /\ build = "next"
    /\ client = "page"
    /\ upload = "compressing"
    /\ upload' = "reading"
    /\ isCompressing' = FALSE
    /\ UNCHANGED << envVars, countVars, svcVars, routeVars, inputVars, isAnalyzing,
                    resultVars, location, submitted, appVars >>

\* reader.onload, of the compressed file (which also resets isCompressing) or of the
\* original one.
ReaderLoad ==
    /\ client \in { "page", "app" }
    /\ upload \in { "compressing", "reading" }
    /\ upload' = "none"
    /\ selectedImage' = DataUrl
    /\ isCompressing' = FALSE
    /\ UNCHANGED << envVars, countVars, svcVars, routeVars, inputText, fileName, isAnalyzing,
                    resultVars, location, submitted, appVars >>

\* The button on the preview: onClick={() => setSelectedImage(undefined)}
RemoveImage ==
    /\ InputAreaShown
    /\ Truthy(selectedImage)
    /\ selectedImage' = Undefined
    /\ UNCHANGED << envVars, countVars, svcVars, routeVars, inputText, fileName, isAnalyzing,
                    resultVars, location, uploadVars, submitted, appVars >>

\* The button on the file chip, shown when fileName && !selectedImage && !isCompressing.
RemoveFile ==
    /\ InputAreaShown
    /\ Truthy(fileName) /\ ~Truthy(selectedImage) /\ ~isCompressing
    /\ fileName' = Null
    /\ UNCHANGED << envVars, countVars, svcVars, routeVars, inputText, selectedImage, isAnalyzing,
                    resultVars, location, uploadVars, submitted, appVars >>

\* if (isAnalyzing || (!inputText && !selectedImage && !fileName)) return;
HandleAnalyzeReturnsEarly ==
    isAnalyzing \/ (~Truthy(inputText) /\ ~Truthy(selectedImage) /\ ~Truthy(fileName))

\* inputText || (fileName ? `Arquivo: ${fileName}` : undefined)
TextToAnalyze ==
    IF Truthy(inputText) THEN inputText
    ELSE IF Truthy(fileName) THEN Str(<< "Arquivo: " >> \o fileName.chars)
    ELSE Undefined

\* JSON.stringify({ text, image }): a property whose value is undefined is left out.
RequestBody(t, img) ==
    ("text" :> t) @@ (IF img = Undefined THEN << >> ELSE ("image" :> img))

\* handleAnalyze up to the fetch of analyzeWithAPI.  The input area, and with it the
\* state isCompressing, is unmounted as soon as isAnalyzing is set.
HandleAnalyze ==
    /\ build = "next"
    /\ client = "page"
    /\ IF HandleAnalyzeReturnsEarly
       THEN UNCHANGED << countVars, routeVars, pageVars >>
       ELSE IF ~Truthy(TextToAnalyze) /\ ~Truthy(selectedImage)
       THEN UNCHANGED << countVars, routeVars, pageVars >>
       ELSE /\ calls < MaxCalls
            /\ isAnalyzing' = TRUE
            /\ analysisResult' = Null
            /\ isCompressing' = FALSE
            /\ submitted' = [text |-> TextToAnalyze, image |-> selectedImage]
            /\ RouteReceive([parses |-> TRUE, object |-> TRUE,
                             value |-> RequestBody(IF Truthy(TextToAnalyze) THEN TextToAnalyze
                                                   ELSE EmptyString,
                                                   selectedImage)])
            /\ UNCHANGED << inputVars, history, stored, now, location, upload, appVars >>
    /\ UNCHANGED << envVars, svcVars >>

\* disabled={isAnalyzing || isCompressing || (!inputText && !selectedImage && !fileName)}
AnalyzeButtonDisabled ==
    \/ isAnalyzing
    \/ isCompressing
    \/ (~Truthy(inputText) /\ ~Truthy(selectedImage) /\ ~Truthy(fileName))

\* The send button: onClick={onAnalyze}
ClickAnalyze ==
    /\ InputAreaShown
    /\ ~AnalyzeButtonDisabled
    /\ HandleAnalyze

\* The textarea: onKeyDown, Enter without Shift calls onAnalyze().
PressEnter ==
    /\ InputAreaShown
    /\ HandleAnalyze

\* A variant that resets the loading state at the end of the try block only.
IsAnalyzingAfterTryOnly(ok) == ~ok

\* finally { setIsAnalyzing(false) }: the same after a result (ok) and after an error.
IsAnalyzingAfter(ok) == FALSE

\* A variant that takes every response for a result.
ResponseOkAlways(r) == TRUE

\* response.ok
ResponseOk(r) == r.status >= 200 /\ r.status <= 299

\* analyzeWithAPI has the response.  A response that is ok is stamped, set as the result,
\* added to the history and shown on /report, which unmounts Home; any other throws, the
\* catch alerts, and the finally resets the loading state.
HandleAnalyzeSettles ==
    /\ build = "next"
    /\ client = "page"
    /\ routePc = "responded"
    /\ isAnalyzing
    /\ isAnalyzing' = IsAnalyzingAfter(response.status = 200)
    /\ IF ResponseOk(response)
       THEN LET resultWithMetadata ==
                    WithMetadata(response.body, now + 1,
                                 IF Truthy(submitted.text) THEN submitted.text
                                 ELSE Str(<< "N/A" >>),
                                 submitted.image)
            IN  /\ analysisResult' = resultWithMetadata
                /\ AddToHistory(resultWithMetadata)
                /\ now' = now + 1
                /\ location' = "/report"
                /\ inputText' = EmptyString
                /\ selectedImage' = Undefined
                /\ fileName' = Null
                /\ upload' = "none"
       ELSE UNCHANGED << inputVars, resultVars, location, upload >>
    /\ submitted' = NoSubmission
    /\ RouteReset
    /\ UNCHANGED << envVars, svcVars, isCompressing, appVars >>

\* ReportPage: the button Voltar, router.push('/'), which mounts a new Home.
ReportBack ==
    /\ build = "next"
    /\ client = "page"
    /\ location = "/report"
    /\ location' = "/"
    /\ UNCHANGED << envVars, countVars, svcVars, routeVars, inputVars, isAnalyzing,
                    resultVars, uploadVars, submitted, appVars >>

(***************************************************************************)
(* App (vite): processAnalysis, saveToHistory and the button VOLTAR.       *)
(***************************************************************************)
\* A variant that keeps the image of the two newest entries.
StripOlderThanSecond(list) ==
    [i \in DOMAIN list |->
        IF i > 2 THEN ("sourceImage" :> Undefined) @@ list[i] ELSE list[i]]

\* [result, ...history].map((item, index) => index > 0 ? { ...item, sourceImage:
\* undefined } : item)
StripOlder(list) ==
    [i \in DOMAIN list |->
        IF i > 1 THEN ("sourceImage" :> Undefined) @@ list[i] ELSE list[i]]

\* saveToHistory(result), with the history its closure holds; setItem may throw
\* (quota exceeded), which is caught and ignored.
SaveToHistory(result, closureHistory, quotaLeft) ==
    LET updatedHistory == Slice(StripOlder(<< result >> \o closureHistory), HistoryLimit)
    IN  /\ history' = updatedHistory
        /\ stored' = IF quotaLeft THEN JsonList(updatedHistory) ELSE stored

\* `${fileName}` of a string or of null
Interpolated(name) == IF name = Null THEN << "null" >> ELSE name.chars

\* if (isAnalyzing || (!inputText && !selectedImage && !fileName)) return;
ProcessAnalysisReturnsEarly ==
    isAnalyzing \/ (~Truthy(inputText) /\ ~Truthy(selectedImage) /\ ~Truthy(fileName))

\* What a processAnalysis closes over: currentInputText, currentSelectedImage,
\* currentFileName and the history of the render it was created in.
Closure ==
    [text |-> inputText, image |-> selectedImage, fileName |-> fileName, history |-> history]

\* processAnalysis up to its await.  analyzeCreative is followed step by step for the
\* call made while no other is in flight; a call made while that one is still in flight
\* is kept in detached and settles with some outcome.
ProcessAnalysis ==
    /\ build = "vite"
    /\ client = "app"
    /\ IF ProcessAnalysisReturnsEarly
       THEN UNCHANGED << countVars, svcVars, pageVars >>
       ELSE /\ calls < MaxCalls
            /\ lastInputData' =
                  [text |-> IF Truthy(inputText) THEN inputText
                            ELSE IF Truthy(fileName)
                                 THEN Str(<< "Arquivo: " >> \o fileName.chars)
                                 ELSE EmptyString,
                   image |-> selectedImage]
            /\ inputText' = EmptyString
            /\ fileName' = Null
            /\ selectedImage' = Undefined
            /\ isAnalyzing' = TRUE
            /\ analysisResult' = IF Truthy(selectedImage) THEN Null ELSE analysisResult
            /\ IF svcPc = "idle"
               THEN /\ submitted' = Closure
                    /\ SvcStart(IF Truthy(inputText) THEN inputText
                                ELSE Str(<< "Analise do arquivo: " >> \o Interpolated(fileName)),
                                selectedImage)
                    /\ UNCHANGED detached
               ELSE /\ detached = NoSubmission
                    /\ detached' = Closure
                    /\ calls' = calls + 1
                    /\ UNCHANGED << invocations, waits, only429, svcVars, submitted >>
            /\ UNCHANGED << history, stored, now, location, uploadVars, abandoned >>
    /\ UNCHANGED << envVars, routeVars >>

\* The send button: onClick={processAnalysis}, disabled={isAnalyzing || (!inputText &&
\* !selectedImage && !fileName)}
AppClick ==
    /\ InputAreaShown
    /\ ~ProcessAnalysisReturnsEarly
    /\ ProcessAnalysis

\* The textarea: onKeyDown, Enter without Shift calls processAnalysis().
AppEnter ==
    /\ InputAreaShown
    /\ ProcessAnalysis

\* { ...result, timestamp: Date.now(), sourceText: currentInputText ||
\* `Documento: ${currentFileName}`, sourceImage: currentSelectedImage }
AppResult(result, closure, stamp) ==
    WithMetadata(result, stamp,
                 IF Truthy(closure.text) THEN closure.text
                 ELSE Str(<< "Documento: " >> \o Interpolated(closure.fileName)),
                 closure.image)

\* processAnalysis after its await: try { setAnalysisResult; saveToHistory } catch
\* { alert } finally { setIsAnalyzing(false) }
ProcessAnalysisContinues(settled, closure, quotaLeft) ==
    /\ IF settled.state = "fulfilled"
       THEN LET resultWithMetadata == AppResult(settled.value, closure, now + 1)
            IN  /\ analysisResult' = resultWithMetadata
                /\ SaveToHistory(resultWithMetadata, closure.history, quotaLeft)
                /\ now' = now + 1
       ELSE UNCHANGED resultVars
    /\ isAnalyzing' = IsAnalyzingAfter(settled.state = "fulfilled")

\* The analyzeCreative call that is followed has settled.
AppSettles(quotaLeft) ==
    /\ build = "vite"
    /\ client = "app"
    /\ svcPc = "settled"
    /\ ProcessAnalysisContinues(svcPromise, submitted, quotaLeft)
    /\ submitted' = NoSubmission
    /\ abandoned' = FALSE
    /\ SvcReset
    /\ UNCHANGED << envVars, routeVars, inputVars, location, uploadVars, lastInputData, detached >>

\* How the call kept in detached may settle.
DetachedOutcomes ==
    { Fulfilled(Analysis(60, AgentsFeedback, PersonaImpact)), Rejected(OverloadedError) }

\* The analyzeCreative call kept in detached has settled.
DetachedSettles(settled, quotaLeft) ==
    /\ build = "vite"
    /\ client = "app"
    /\ detached # NoSubmission
    /\ ProcessAnalysisContinues(settled, detached, quotaLeft)
    /\ detached' = NoSubmission
    /\ UNCHANGED << envVars, countVars, svcVars, routeVars, inputVars, location, uploadVars,
                    submitted, lastInputData, abandoned >>

\* VOLTAR, in the report view: onClick={() => { setAnalysisResult(null);
\* setIsAnalyzing(false); }}.  Nothing is said to analyzeCreative.
Voltar ==
    /\ build = "vite"
    /\ client = "app"
    /\ svcPc # "settled"
    /\ AppReport
    /\ analysisResult' = Null
    /\ isAnalyzing' = FALSE
    /\ abandoned' = (abandoned \/ (isAnalyzing /\ svcPc # "idle"))
    /\ UNCHANGED << envVars, countVars, svcVars, routeVars, inputVars, history, stored, now,
                    location, uploadVars, submitted, lastInputData, detached >>

vars == << envVars, countVars, svcVars, routeVars, pageVars >>

Init ==
    /\ \/ build = "vite" /\ client \in { "script", "app" }
       \/ build = "next" /\ client \in { "page", "http" }
    /\ apiKey \in BOOLEAN
    /\ calls = 0
    /\ invocations = 0
    /\ waits = 0
    /\ only429 = TRUE
    /\ svcPc = "idle"
    /\ contents = << >>
    /\ attempt = 0
    /\ svcResponse = NoText
    /\ textResult = NoText
    /\ svcError = NoError
    /\ svcDelay = 0
    /\ svcPromise = Pending
    /\ routePc = "idle"
    /\ body = NoBody
    /\ text = Undefined
    /\ image = Undefined
    /\ parts = << >>
    /\ retryCount = 0
    /\ responseText = NoText
    /\ routeError = NoError
    /\ routeDelay = 0
    /\ response = NoResponse
    /\ fallbacks = 0
    /\ inputText = EmptyString
    /\ selectedImage = Undefined
    /\ fileName = Null
    /\ isAnalyzing = FALSE
    /\ analysisResult = Null
    /\ stored \in (IF client \in { "page", "app" } THEN StoredHistories ELSE { << >> })
    /\ history = stored
    /\ now = 0
    /\ location = "/"
    /\ isCompressing = FALSE
    /\ upload = "none"
    /\ submitted = NoSubmission
    /\ lastInputData = NoInputData
    /\ detached = NoSubmission
    /\ abandoned = FALSE

Next ==
    \/ \E input \in Texts, base64Image \in Images : SvcCall(input, base64Image)
    \/ \E outcome \in OutcomesOf(client) : SvcAttempt(outcome)
    \/ SvcCatch
    \/ SvcWake
    \/ SvcDone
    \/ \E req \in Requests : HttpPost(req)
    \/ \E outcome \in OutcomesOf(client) : RouteAttempt(outcome)
    \/ RouteCatch
    \/ RouteWake
    \/ \E outcome \in OutcomesOf(client) : RouteFallback(outcome)
    \/ HttpDone
    \/ \E t \in Texts : PageType(t)
    \/ \E file \in Files : HandleFileUpload(file)
    \/ CompressionFails
    \/ ReaderLoad
    \/ RemoveImage
    \/ RemoveFile
    \/ ClickAnalyze
    \/ PressEnter
    \/ ReportBack
    \/ AppClick
    \/ AppEnter
    \/ \E quotaLeft \in BOOLEAN : AppSettles(quotaLeft)
    \/ \E settled \in DetachedOutcomes, quotaLeft \in BOOLEAN : DetachedSettles(settled, quotaLeft)
    \/ Voltar
    \/ HandleAnalyzeSettles

Spec == Init /\ [][Next]_vars

\* The code that runs after an await: a catch block, the code after a delay, the
\* code after the page's fetch.  At most one of them is enabled in any state.
Continuation ==
    \/ SvcCatch
    \/ SvcWake
    \/ RouteCatch
    \/ RouteWake
    \/ HandleAnalyzeSettles
    \/ \E quotaLeft \in BOOLEAN : AppSettles(quotaLeft)
    \/ \E settled \in DetachedOutcomes, quotaLeft \in BOOLEAN : DetachedSettles(settled, quotaLeft)

\* The program with its awaits completing: every invocation of the model settles
\* (neither orchestration stays inside generateContent for ever), every delay elapses,
\* the page's fetch settles, and the code after each await is run.
FairSpec ==
    /\ Spec
    /\ []<>(svcPc # "attempting" /\ routePc \notin { "attempting", "fallback" })
    /\ WF_vars(Continuation)

(***************************************************************************)
(* Properties.                                                             *)
(***************************************************************************)
StatusIs(error, code) == Has(error, "status") /\ error.status = code
MessageHas(error, fragment) == Has(error, "message") /\ Includes(error.message, fragment)

C3_Retryable(error) ==
    \/ StatusIs(error, 429)
    \/ StatusIs(error, 503)
    \/ MessageHas(error, "Resource has been exhausted")
    \/ MessageHas(error, "Quota exceeded")

C4_Retryable(error) ==
    \/ StatusIs(error, 429)
    \/ StatusIs(error, 503)
    \/ MessageHas(error, "429")
    \/ MessageHas(error, "RESOURCE_EXHAUSTED")
    \/ MessageHas(error, "Resource has been exhausted")
    \/ MessageHas(error, "Quota exceeded")

\* C4 as stated: in the route's attemptGeneration a failed attempt is retried only when
\* the error has status 429 or 503 or a quota / resource-exhaustion message; any other
\* provider error ends the image-path attempts immediately.
C4_Original ==
    [][ (routePc = "caught" /\ responseText = NoText /\ ~C4_Retryable(routeError)) =>
            routePc' # "sleeping" ]_vars

\* C4 as amended: a failed attempt is retried only when fewer than 3 retries were made
\* and the error has status 429, 503 or 500 or a message containing '429',
\* 'RESOURCE_EXHAUSTED', 'timeout' or 'network'; any other error ends the image-path
\* attempts immediately, with no wait and no further attempt with the image.
C4_RouteRetryable ==
    [][ routePc = "caught" =>
          LET retried == /\ retryCount < 3
                         /\ \/ StatusIs(routeError, 429)
                            \/ StatusIs(routeError, 503)
                            \/ StatusIs(routeError, 500)
                            \/ MessageHas(routeError, "429")
                            \/ MessageHas(routeError, "RESOURCE_EXHAUSTED")
                            \/ MessageHas(routeError, "timeout")
                            \/ MessageHas(routeError, "network")
          IN  /\ retried <=> routePc' = "sleeping"
              /\ ~retried =>
                    /\ routePc' \in { "fallback", "responded" }
                    /\ waits' = waits
                    /\ invocations' = invocations
                    /\ retryCount' = retryCount ]_routeVars

C4_Witness ==
    /\ routePc = "sleeping"
    /\ StatusIs(routeError, 500)
    /\ ~Has(routeError, "message")

\* C5: when an attempt returns response text that is not valid JSON, analyzeCreative and
\* the route's attemptGeneration make no further image-path attempt and wait no backoff
\* delay.
C5_MalformedNotRetried ==
    [][ /\ (svcPc = "caught" /\ textResult # NoText) =>
              svcPc' # "sleeping" /\ waits' = waits
        /\ (routePc = "caught" /\ responseText # NoText) =>
              routePc' # "sleeping" /\ waits' = waits ]_vars

\* The delay in ms that the error's RetryInfo states, or -1 when it states none.
Guidance(error) == RequestedDelay(error, -1)

\* C6: whenever a retried error carries a RetryInfo detail whose retryDelay has the form
\* <digits>s or <digits>ms, the wait before the next attempt is exactly that value in
\* milliseconds, never the backoff-schedule value, in analyzeCreative and in the route.
C6_GuidanceUsedExactly ==
    /\ (svcPc = "sleeping" /\ Guidance(svcError) # -1) => svcDelay = Guidance(svcError)
    /\ (routePc = "sleeping" /\ Guidance(routeError) # -1) => routeDelay = Guidance(routeError)

\* The schedule C7 states.
C7_Schedule(n) ==
    CASE n = 0 -> 2000 [] n = 1 -> 5000 [] n = 2 -> 15000 [] OTHER -> 35000

\* C7: in analyzeCreative, when a retried failure at attempt index n carries no parseable
\* retry guidance, the wait before the next attempt is the n-th entry of the schedule
\* 2000, 5000, 15000, 35000 ms, and 35000 ms for any index past the end of the schedule.
C7_BackoffSchedule ==
    /\ (svcPc = "sleeping" /\ Guidance(svcError) = -1) => svcDelay = C7_Schedule(attempt)
    /\ \A n \in 0..MaxAttemptIndex : BackoffDelay(n) = C7_Schedule(n)

C7_Witness ==
    /\ svcPc = "sleeping"
    /\ Guidance(svcError) = -1
    /\ attempt = 2
    /\ svcDelay = 15000

EmptyOrAbsent(v) == v = Undefined \/ v = EmptyString

\* C8: every request to POST /api/analyze whose text is absent or empty and whose image
\* is absent or empty is answered 400 'Input invalido' and the model is never invoked;
\* handleAnalyze starts no request when text, image and file name are all empty.
C8_EmptyInputRejected ==
    /\ [] ( ( /\ build = "next"
              /\ routePc # "idle"
              /\ body.parses
              /\ body.object
              /\ EmptyOrAbsent(Prop(body.value, "text"))
              /\ EmptyOrAbsent(Prop(body.value, "image")) ) =>
            ( /\ routePc = "responded"
              /\ response = InvalidInputResponse
              /\ invocations = 0 ) )
    /\ [][ ( /\ client = "page"
             /\ ~Truthy(inputText)
             /\ ~Truthy(selectedImage)
             /\ ~Truthy(fileName) ) =>
           ( /\ calls' = calls
             /\ routePc' = routePc
             /\ isAnalyzing' = isAnalyzing
             /\ invocations' = invocations ) ]_vars

C8_Witness ==
    /\ client = "http"
    /\ routePc = "responded"
    /\ body.parses
    /\ body.object
    /\ body.value = ("text" :> EmptyString) @@ ("image" :> EmptyString)
    /\ response = InvalidInputResponse
    /\ invocations = 0

\* C9: analyzeCreative called with empty text and no image fails with an empty-input
\* error before any model invocation is attempted.
C9_EmptyInputNotInvoked ==
    (build = "vite" /\ svcPc # "idle" /\ contents = << [text |-> EmptyString] >>) =>
        invocations = 0

\* An AnalysisResult as C10 requires it.
Conforms(v) ==
    /\ Has(v, "overall_score")
    /\ v.overall_score \in 0..100
    /\ Has(v, "agents_feedback")
    /\ v.agents_feedback # << >>
    /\ Has(v, "persona_impact")
    /\ v.persona_impact # << >>

\* C10: whenever analyzeCreative or the route returns a result as success, the result has
\* overall_score within [0,100] and non-empty agents_feedback and persona_impact.
C10_SuccessConforms ==
    /\ svcPromise.state = "fulfilled" => Conforms(svcPromise.value)
    /\ response.status = 200 => Conforms(response.body)

\* Whether JSON.parse accepts the text.
ValidJson(s) == Has(s, "valid") /\ s.valid

\* C11: for every provider response whose text is not valid JSON, an empty or missing
\* text included, analyzeCreative fails with the malformed-response error and never
\* returns a default or empty result object.
C11_MalformedRejected ==
    (build = "vite" /\ svcPc = "settled" /\ svcResponse # NoText /\ ~ValidJson(svcResponse)) =>
        /\ svcPromise.state = "rejected"
        /\ svcPromise.reason = FailedAfterError(attempt + 1, JsonParseError)

\* The parts of the last invocation carry no inline image.
TextOnlyParts == parts # << >> /\ \A i \in DOMAIN parts : ~Has(parts[i], "inlineData")

\* C12: the route's text-only fallback is issued only when the request had both an image
\* and a text and at least one retry of the image path has already failed
\* (retryCount >= 1): never for a text-only request, an image-only request, or after the
\* failure of the very first attempt.
C12_FallbackOnlyAfterRetry ==
    /\ routePc = "fallback" =>
        /\ Truthy(text) /\ Truthy(image)
        /\ retryCount >= 1 /\ waits >= 1 /\ invocations >= 2
    /\ (routePc = "responded" /\ Truthy(image) /\ TextOnlyParts) =>
        /\ Truthy(text)
        /\ retryCount >= 1 /\ waits >= 1 /\ invocations >= 3

C12_Witness ==
    /\ routePc = "responded" /\ Truthy(image) /\ TextOnlyParts
    /\ retryCount = 1 /\ invocations = 3

\* C13: if the text-only fallback also fails, the error delivered to the caller, and used
\* for the HTTP status and message of the response, is the original image-path error
\* (routeError when the fallback starts), not the fallback's error.
C13_OriginalErrorSurfaces ==
    [][(routePc = "fallback" /\ routePc' = "responded" /\ response'.status # 200) =>
            response' = ErrorResponse(routeError)]_vars

\* C14: when a request with text and image has every image-path attempt fail and the
\* text-only fallback succeeds, the result carries the field warning set to the fixed
\* degraded-mode message, and every other field of the result, any simulated_heatmap
\* included, is the one of the text-only call's response.
C14_FallbackResult ==
    (routePc = "responded" /\ response.status = 200 /\ Truthy(image) /\ TextOnlyParts) =>
        LET value == responseText.value
            result == response.body
        IN  /\ Has(result, "warning") /\ result["warning"] = FallbackWarning
            /\ DOMAIN result \ {"warning"} = DOMAIN value \ {"warning"}
            /\ \A f \in DOMAIN value \ {"warning"} : result[f] = value[f]

C14_Witness ==
    /\ routePc = "responded" /\ response.status = 200 /\ Truthy(image) /\ TextOnlyParts
    /\ invocations = 5
    /\ Has(responseText.value, "warning")
    /\ Has(response.body, "overall_score")

\* C15: the text-only fallback is executed at most once per orchestrated call, and it
\* ends the call: none is counted while the image path is still being attempted.
C15_FallbackAtMostOnce ==
    /\ fallbacks <= 1
    /\ routePc \in { "attempting", "caught", "sleeping", "fallback" } => fallbacks = 0

C15_Witness ==
    /\ routePc = "responded" /\ fallbacks = 1
    /\ response.status # 200
    /\ retryCount = 1

\* C16: when analyzeCreative exhausts its retries on a retryable failure (status 429,
\* status 503, or a quota / resource-exhaustion message) the error it surfaces is the
\* 'overloaded' message; the generic 'Falha na analise apos N tentativas' error is
\* surfaced only for other failures.
C16_ExhaustedIsOverloaded ==
    (build = "vite" /\ svcPc = "settled" /\ svcPromise.state = "rejected" /\ invocations >= 1) =>
        IF C3_Retryable(svcError)
        THEN invocations = maxRetries /\ svcPromise.reason = OverloadedError
        ELSE svcPromise.reason = FailedAfterError(attempt + 1, svcError)

\* The three kinds of answer of POST /api/analyze.
IsResultResponse ==
    /\ response.status = 200
    /\ ~Has(response.body, "error")
    /\ invocations >= 1
    /\ responseText # NoText /\ ValidJson(responseText)
    /\ \A f \in DOMAIN responseText.value \ {"warning"} :
            Has(response.body, f) /\ response.body[f] = responseText.value[f]

IsInvalidInputResponse ==
    /\ response.status = 400
    /\ response.body = [error |-> "Input invalido"]
    /\ invocations = 0
    /\ body.parses

IsErrorResponse ==
    /\ response.status \in (Statuses \cup {500}) \ {200}
    /\ DOMAIN response.body = {"error"}

StatusOrDefault(error) == IF Has(error, "status") THEN error.status ELSE 500

\* C17: every exit of POST is classified: the response is the result (200), an
\* invalid-input error (400), or an error body with the failing error's status (500
\* when it has none); every failure of an attempt or of the fallback ends in such a
\* response, none escapes the handler.
C17_ExitsClassified ==
    /\ [](routePc = "responded" =>
            IsResultResponse \/ IsInvalidInputResponse \/ IsErrorResponse)
    /\ [](routePc \in { "idle", "attempting", "caught", "sleeping", "fallback", "responded" })
    /\ [][(routePc = "caught" /\ routePc' = "responded") =>
            /\ response'.status = StatusOrDefault(routeError)
            /\ DOMAIN response'.body = {"error"}]_vars
    /\ [][(routePc = "idle" /\ routePc' = "responded" /\ ~body'.parses) =>
            response'.status = 500 /\ DOMAIN response'.body = {"error"}]_vars
    /\ [][(routePc = "fallback" /\ routePc # routePc') =>
            /\ routePc' = "responded"
            /\ response'.status # 200 => DOMAIN response'.body = {"error"}]_vars

C17_Witness ==
    /\ routePc = "responded" /\ response.status = 500
    /\ invocations = 1 /\ routeError # NoError /\ ~Has(routeError, "status")
    /\ IsErrorResponse

SvcRunning == svcPc \in { "attempting", "caught", "sleeping" }
RouteRunning == routePc \in { "attempting", "caught", "sleeping", "fallback" }

\* Variants of the two orchestrations: what is left of the retry budget, then the
\* position inside the current attempt.
SvcRank ==
    IF SvcRunning
    THEN 3 * (maxRetries - attempt)
         + (CASE svcPc = "attempting" -> 3 [] svcPc = "caught" -> 2 [] svcPc = "sleeping" -> 1)
    ELSE 0

RouteRank ==
    CASE routePc = "attempting" -> 4 * (3 - retryCount) + 4
      [] routePc = "caught" -> 4 * (3 - retryCount) + 3
      [] routePc = "sleeping" -> 4 * (3 - retryCount) + 2
      [] routePc = "fallback" -> 1
      [] OTHER -> 0

\* C18: every orchestrated call eventually reaches a terminal state (a result or a
\* terminal failure), assuming each model invocation and each delay wait completes:
\* analyzeCreative's loop and attemptGeneration's recursion never go on forever, each of
\* their steps strictly decreases a non-negative variant.
C18_Terminates ==
    /\ (SvcRunning \/ RouteRunning) ~>
            \/ svcPc = "settled" /\ svcPromise.state \in { "fulfilled", "rejected" }
            \/ routePc = "responded" /\ response # NoResponse
    /\ [](SvcRank >= 0 /\ RouteRank >= 0)
    /\ [][(SvcRunning /\ svcVars' # svcVars) => SvcRank' < SvcRank]_vars
    /\ [][(RouteRunning /\ routeVars' # routeVars) => RouteRank' < RouteRank]_vars

C18_Witness ==
    \/ svcPc = "settled" /\ svcPromise.state = "rejected" /\ invocations = maxRetries
    \/ routePc = "responded" /\ invocations = 5 /\ response.status # 200

\* C19: whatever the outcome of a submitted analysis (a result, a 429 on every attempt,
\* any other error), the page eventually leaves the analyzing state: isAnalyzing becomes
\* false as soon as the request is over, and the page is then free for a new
\* submission, with no request left in flight.
C19_LeavesAnalyzing ==
    /\ isAnalyzing ~> ~isAnalyzing
    /\ [](client = "page" => (isAnalyzing <=> routePc # "idle"))
    /\ [][(client = "page" /\ routePc = "responded" /\ routePc' # "responded") =>
            ~isAnalyzing' /\ routePc' = "idle"]_vars
    /\ [](~isAnalyzing => HandleAnalyzeReturnsEarly
                            = (~Truthy(inputText) /\ ~Truthy(selectedImage) /\ ~Truthy(fileName)))

C19_Witness ==
    /\ client = "page" /\ ~isAnalyzing /\ routePc = "idle"
    /\ calls = 1
    /\ Truthy(inputText)

HasComma(chars) == \E i \in DOMAIN chars : chars[i] = ","
FirstComma(chars) == CHOOSE i \in DOMAIN chars : chars[i] = "," /\ \A j \in 1..(i - 1) : chars[j] # ","

\* The image string with its data-URL prefix stripped: what follows the first comma.
AfterPrefix(img) ==
    IF HasComma(img.chars)
    THEN Str(SubSeq(img.chars, FirstComma(img.chars) + 1, Len(img.chars)))
    ELSE img

\* What the code sends as image data: the text between the first and the second comma,
\* or the whole string when there is no comma or that text is empty.
Payload(img) ==
    LET rest == AfterPrefix(img).chars
        piece == IF HasComma(rest) THEN SubSeq(rest, 1, FirstComma(rest) - 1) ELSE rest
    IN  IF HasComma(img.chars) /\ piece # << >> THEN Str(piece) ELSE img

ImagePart(data) == [inlineData |-> [mimeType |-> "image/png", data |-> data]]

\* The parts as the claim states them.
ExpectedParts(t, img, withImage) ==
    (IF Truthy(t) THEN << [text |-> t] >> ELSE << >>)
    \o (IF Truthy(img) /\ withImage THEN << ImagePart(AfterPrefix(img)) >> ELSE << >>)

\* The parts of analyzeCreative: the text part is always there.
ExpectedContents(t, img) ==
    << [text |-> t] >> \o (IF Truthy(img) THEN << ImagePart(Payload(img)) >> ELSE << >>)

RouteSentImagePath ==
    \/ routePc \in { "caught", "sleeping", "fallback" }
    \/ routePc = "responded" /\ invocations >= 1 /\ fallbacks = 0
RouteSentFallback == routePc = "responded" /\ fallbacks = 1
SvcSent == build = "vite" /\ invocations >= 1

\* Image strings beyond those the callers of the model pass: a data URL with an empty
\* payload, a string with two commas.
ImageSamples ==
    (Images \ { Undefined })
    \cup { Str(<< "data:image/png;base64", "," >>), Str(<< "a", ",", "b", ",", "c" >>) }

\* C20 as stated: the parts sent are, in order, a text part if and only if text is
\* present, then an inline image part if and only if an image is present (data-URL
\* prefix stripped, MIME type image/png); the fallback sends the same parts without
\* the image part; for the route's buildParts and for analyzeCreative's parts alike
\* (for analyzeCreative, stated here of the calls that were given an image).
C20_Original ==
    /\ RouteSentImagePath => parts = ExpectedParts(text, image, TRUE)
    /\ RouteSentFallback => parts = ExpectedParts(text, image, FALSE)
    /\ (SvcSent /\ \E i \in DOMAIN contents : Has(contents[i], "inlineData")) =>
            \E t \in Texts, img \in Images : contents = ExpectedParts(t, img, TRUE)

\* The texts analyzeCreative is called with: those of a caller's own, and those App
\* makes of a file name when no text was typed.
SubmittedTexts ==
    Texts \cup { Str(<< "Analise do arquivo: " >> \o Interpolated(name)) :
                    name \in { Null } \cup { file.name : file \in Files } }

\* C20: the route sends, in order, a text part if and only if text is present, then an
\* inline image part if and only if an image is present; its fallback sends the same
\* parts without the image part.  analyzeCreative always sends a text part first, an
\* empty one when the input is empty, then an image part if and only if an image is
\* present.  The image data is the text between the first and the second comma of the
\* image string, the whole string when that is empty or there is no comma; the MIME
\* type is image/png.
C20_PartsSent ==
    /\ RouteSentImagePath =>
            parts = (IF Truthy(text) THEN << [text |-> text] >> ELSE << >>)
                    \o (IF Truthy(image) THEN << ImagePart(Payload(image)) >> ELSE << >>)
    /\ RouteSentFallback => parts = << [text |-> text] >> /\ Truthy(text) /\ Truthy(image)
    /\ SvcSent =>
            /\ \E t \in SubmittedTexts, img \in Images : contents = ExpectedContents(t, img)
            /\ Len(contents) \in 1..2 /\ Has(contents[1], "text")
    /\ \A img \in ImageSamples :
            /\ ImageData(img) = Payload(img)
            /\ \A t \in Texts : SvcContents(t, img) = ExpectedContents(t, img)
    /\ Payload(DataUrl) = Str(<< "iVBOR" >>)

C20_Witness ==
    /\ SvcSent /\ svcPc = "settled"
    /\ contents = << [text |-> EmptyString], ImagePart(Str(<< "iVBOR" >>)) >>

\* C23: as soon as an attempt's invocation and JSON parsing succeed, the orchestration
\* returns that attempt's result and performs no further model invocation and no
\* further wait; the returned result is always the one of the last invocation made.
C23_SuccessReturns ==
    /\ [](svcPromise.state = "fulfilled" =>
            /\ svcPc = "settled" /\ invocations >= 1
            /\ ValidJson(textResult) /\ svcPromise.value = textResult.value)
    /\ [][(svcPc = "attempting" /\ ValidJson(textResult')) =>
            /\ svcPc' = "settled" /\ svcPromise' = Fulfilled(textResult'.value)
            /\ invocations' = invocations + 1 /\ waits' = waits]_vars
    /\ [][(svcPc = "settled" /\ svcVars' # svcVars) =>
            svcPc' = "idle" /\ invocations' = 0 /\ waits' = 0]_vars
    /\ []((routePc = "responded" /\ response.status = 200) =>
            /\ invocations >= 1 /\ ValidJson(responseText)
            /\ response.body = IF fallbacks = 1 THEN WithWarning(responseText.value)
                               ELSE responseText.value)
    /\ [][(routePc = "attempting" /\ ValidJson(responseText')) =>
            /\ routePc' = "responded" /\ response' = Response(200, responseText'.value)
            /\ invocations' = invocations + 1 /\ waits' = waits]_vars
    /\ [][(routePc = "responded" /\ routeVars' # routeVars) =>
            routePc' = "idle" /\ invocations' = 0 /\ waits' = 0]_vars

C23_Witness ==
    /\ svcPc = "settled" /\ svcPromise.state = "fulfilled"
    /\ invocations = 3 /\ waits = 2
    /\ Has(svcPromise.value, "overall_score")

\* C24: in the route the image-path (or text-only primary) generation is attempted at
\* most 4 times per request (retryCount 0..3), so a request makes at most 5 model
\* invocations, the fifth being the single text-only fallback.
C24_RouteBudget ==
    build = "next" =>
        /\ retryCount \in 0..3
        /\ invocations - fallbacks <= 4
        /\ invocations <= 5
        /\ invocations = 5 => fallbacks = 1
        /\ waits <= 3

C24_Witness ==
    /\ routePc = "responded" /\ invocations = 5 /\ fallbacks = 1 /\ retryCount = 3

\* C25: in analyzeCreative a backoff wait happens only between two model invocations:
\* in every call the number of waits is the number of invocations minus one, and no
\* wait follows the failure that ends the call.
C25_WaitsBetweenInvocations ==
    /\ []((build = "vite" /\ svcPc = "attempting") => waits = invocations)
    /\ []((build = "vite" /\ svcPc \in { "caught", "sleeping" }) => waits = invocations - 1)
    /\ []((build = "vite" /\ svcPc = "settled" /\ invocations >= 1) => waits = invocations - 1)
    /\ [][(svcPc = "caught" /\ svcPc' = "settled") => waits' = waits]_vars
    /\ [][(build = "vite" /\ waits' > waits) =>
            svcPc = "sleeping" /\ svcPc' = "attempting" /\ waits' = waits + 1]_vars

C25_Witness ==
    /\ build = "vite" /\ svcPc = "settled" /\ svcPromise.state = "rejected"
    /\ invocations = maxRetries /\ waits = maxRetries - 1

\* C30 as stated: when the API key is not configured neither entry point invokes the
\* model: analyzeCreative throws 'API Key configuration error' and the route answers
\* 500, both before any model invocation, retry or wait.
C30_Original ==
    ~apiKey =>
        /\ invocations = 0 /\ waits = 0
        /\ svcPc = "settled" => svcPromise = Rejected(ApiKeyError)
        /\ routePc = "responded" => response.status = 500

\* C30: when the API key is not configured neither entry point invokes the model:
\* analyzeCreative throws 'API Key configuration error', and the route answers a
\* request that passes validation with 500 and the missing-key message, both before
\* any model invocation, retry or wait; a request that fails validation is still
\* answered 400, a body that is not JSON 500.
C30_NoInvocationWithoutKey ==
    ~apiKey =>
        /\ invocations = 0 /\ waits = 0 /\ fallbacks = 0
        /\ svcPc \in { "idle", "settled" }
        /\ svcPc = "settled" => svcPromise = Rejected(ApiKeyError)
        /\ routePc \in { "idle", "responded" }
        /\ routePc = "responded" =>
                IF ~body.parses THEN response.status = 500
                ELSE IF ~AnalyzeSchema(body) THEN response = InvalidInputResponse
                ELSE /\ response.status = 500
                     /\ response.body = [error |-> "Configuracao de API Key ausente no servidor."]

C30_Witness ==
    /\ ~apiKey
    /\ routePc = "responded" /\ body.parses /\ AnalyzeSchema(body)
    /\ response = MissingKeyResponse /\ invocations = 0

\* C29: in the next-app page no analysis is started, by the send button or by Enter,
\* while isCompressing is true, so that no request leaves with the name of an image
\* file as its text and without the image.
C29_NoAnalysisWhileCompressing ==
    [][(client = "page" /\ isCompressing) => ~(~isAnalyzing /\ isAnalyzing')]_vars

\* C28: when an analysis fails in handleAnalyze (the response is not ok), the history
\* and its persisted copy stay as they were, analysisResult stays null and the page
\* stays on "/"; only a response that is ok adds an entry to the history, exactly one,
\* and navigates to "/report".
C28_FailureLeavesNoTrace ==
    /\ []((client = "page" /\ isAnalyzing) => (analysisResult = Null /\ location = "/"))
    /\ [][(client = "page" /\ routePc = "responded" /\ routePc' = "idle") =>
            IF response.status = 200
            THEN /\ Len(history') = (IF Len(history) < HistoryLimit THEN Len(history) + 1
                                     ELSE HistoryLimit)
                 /\ history'[1] = analysisResult'
                 /\ \A i \in 2..Len(history') : history'[i] = history[i - 1]
                 /\ location' = "/report"
            ELSE /\ history' = history
                 /\ stored' = stored
                 /\ analysisResult' = Null
                 /\ location' = "/"]_vars
    /\ [][(client = "page" /\ (history' # history \/ stored' # stored \/ location' = "/report")) =>
            (routePc = "responded" /\ response.status = 200)]_vars

C28_Witness ==
    /\ client = "page" /\ calls = 1 /\ routePc = "idle" /\ ~isAnalyzing
    /\ now = 0 /\ analysisResult = Null /\ location = "/"
    /\ Len(history) = LoadedEntries /\ stored = history

\* C21: once the user has left a request of the App (VOLTAR while analyzeCreative is in
\* an invocation or in a retry wait), analyzeCreative makes no further model invocation
\* for it, completes no further wait, and its result is not delivered to the UI.
C21_AbandonedRequestStops ==
    /\ [][abandoned => (invocations' <= invocations /\ waits' <= waits)]_vars
    /\ [][(abandoned /\ svcPc = "settled" /\ svcPc' = "idle") =>
            (analysisResult' = analysisResult /\ history' = history)]_vars

\* The analyzeCreative calls of the App that have not settled.
Outstanding ==
    (IF svcPc \notin { "idle", "settled" } THEN 1 ELSE 0) + (IF detached # NoSubmission THEN 1 ELSE 0)

\* C22: in the App at most one analyzeCreative call is outstanding at any time, whatever
\* the order of clicks on the send button, Enter and VOLTAR: a submission made while an
\* earlier call is in flight starts no call.
C22_OneOutstandingCall ==
    /\ [](client = "app" => Outstanding <= 1)
    /\ [][(client = "app" /\ Outstanding >= 1) => calls' = calls]_vars

\* The timestamps of a history descend from index 0 on.
NewestFirst(list) ==
    \A i \in 1..(Len(list) - 1) : list[i].timestamp >= list[i + 1].timestamp

\* Two entries that differ at most in sourceImage.
SameEntry(a, b) ==
    JsonItem(("sourceImage" :> Undefined) @@ a) = JsonItem(("sourceImage" :> Undefined) @@ b)

\* C26: the history holds at most 15 entries, newest first; every completed analysis
\* puts its result at index 0, keeps the entries it had in their order and drops only
\* those beyond the 15th; and every list written to localStorage is the in-memory one.
C26_HistoryNewestFirst ==
    /\ [](Len(history) <= HistoryLimit /\ NewestFirst(history))
    /\ [][history' # history =>
            /\ history'[1] = analysisResult'
            /\ Len(history') = (IF Len(history) < HistoryLimit THEN Len(history) + 1
                                ELSE HistoryLimit)
            /\ \A i \in 2..Len(history') : SameEntry(history'[i], history[i - 1])]_vars
    /\ [][stored' # stored => stored' = JsonList(history')]_vars

\* The entry has no image: the property is absent or undefined.
NoImage(item) == ~Truthy(Prop(item, "sourceImage"))

\* C27: in the App only the newest entry of the history may carry sourceImage: every
\* older entry has none, in the in-memory history and in the persisted list, and every
\* save moves the image-free copy of the previous newest entry to index 1.
C27_OnlyNewestHasImage ==
    /\ [](client = "app" =>
            /\ \A i \in 2..Len(history) : NoImage(history[i])
            /\ \A i \in 2..Len(stored) : ~Has(stored[i], "sourceImage"))
    /\ [][(client = "app" /\ history' # history) =>
            (Has(history'[2], "sourceImage") /\ history'[2].sourceImage = Undefined)]_vars

C27_Witness ==
    /\ client = "app"
    /\ Len(history) = HistoryLimit
    /\ Truthy(history[1].sourceImage) /\ history[1].timestamp = 2
    /\ history[2].timestamp = 1 /\ history[2].sourceImage = Undefined
    /\ stored = JsonList(history)
    /\ Truthy(stored[1].sourceImage)
====
